---- MODULE Spec2Model ----
(***************************************************************************)
(* Sales-performance backend (backend/server.py): the sample-data          *)
(* generator guarded by an existing-count check, and the analytics         *)
(* handlers (sales, customers, products, seasonal) that read the sales    *)
(* collection.                                                             *)
(*                                                                         *)
(* Numbers.  Money is exact decimal arithmetic: stored prices and amounts  *)
(* are in cents, unrounded prices in 1/10000 of a currency unit.           *)
(* Percentages are in hundredths of a percent.  round(x, 2) is             *)
(* round-half-even on the exact value.                                     *)
(* Strings.  An ISO date string is the sequence of its zero-padded numeric *)
(* fields, <<y, m, d>> for "YYYY-MM-DD", <<y, m, d, h>> for a naive        *)
(* datetime, <<y, m, d, h, 0>> for a datetime with the "+00:00" suffix;    *)
(* string comparison is lexicographic with a proper prefix being smaller.  *)
(* None and the empty string are the empty sequence / the empty string.    *)
(***************************************************************************)
EXTENDS Integers, Sequences, FiniteSets, TLC

VARIABLES
    store,           \* db.sales: the stored transaction documents, in insertion order
    pc,              \* per request slot: position inside generate_sample_data
    existing_count,  \* per request slot: the local existing_count
    sales_records,   \* per request slot: the local sales_records list
    response,        \* per request slot: what the last generate call returned
    inserted,        \* per request slot: documents of sales_records already written by insert_many
    calls,           \* per request slot: number of generate calls started
    request,         \* the last analytics request: operation and arguments
    reply,           \* the last analytics response: status and body / detail
    sales_data,      \* local of get_sales_analytics: the documents of the current period
    prev_data,       \* local of get_sales_analytics: the documents of the previous period
    customer_data,   \* local of get_customer_analytics: the $group rows
    monthly_data,    \* local of get_seasonal_trends: the sorted $group rows
    product_data,    \* local of get_product_analytics: the sorted $group rows
    previous,        \* the analytics request answered before the current one, with its reply
    loop,            \* position inside the day loop of generate_sample_data
    day_of_run,      \* the loop variable day
    drawn,           \* the random.randint draw of the current day
    base_transactions, \* the local base_transactions of the current day
    slot,            \* iterations of the inner loop completed for the current day
    last_date        \* the date of the record appended last, sales_records[-1]["date"]

loopVars == <<loop, day_of_run, drawn, base_transactions, slot, last_date>>

vars == <<store, pc, existing_count, sales_records, inserted, response, calls,
          request, reply, sales_data, prev_data, customer_data, monthly_data,
          product_data, previous, loopVars>>

genVars == <<pc, existing_count, sales_records, inserted, response, calls, loopVars>>
anaVars == <<request, reply, sales_data, prev_data, customer_data, monthly_data,
             product_data, previous>>

---------------------------------------------------------------------------
(* Bounds of the model *)

NProcs == 2
MaxCalls == 2
MaxBatch == 2
MaxStore == 3
MaxSalesStore == 2
MaxSlots == 2
MaxMonths == 13

(* Program constants *)

WindowDays == 730
TopLimit == 10
TrendMonths == 12
PeakLimit == 6

Procs == 1..NProcs

---------------------------------------------------------------------------
(* Calendar: day ordinals count from 2021-01-01 = 0 (proleptic Gregorian, *)
(* valid between 1901 and 2099).                                          *)

\* The first day of the calendar
Epoch == <<2021, 1, 1>>

YearDays(y) == IF y % 4 = 0 THEN 366 ELSE 365

MonthDays(y, m) ==
    IF m = 2 THEN (IF y % 4 = 0 THEN 29 ELSE 28)
    ELSE IF m \in {4, 6, 9, 11} THEN 30 ELSE 31

RECURSIVE DaysBeforeYear(_)
DaysBeforeYear(y) == IF y <= Epoch[1] THEN 0 ELSE DaysBeforeYear(y - 1) + YearDays(y - 1)

RECURSIVE DaysBeforeMonth(_, _)
DaysBeforeMonth(y, m) == IF m <= 1 THEN 0 ELSE DaysBeforeMonth(y, m - 1) + MonthDays(y, m - 1)

ToOrdinal(y, m, d) == DaysBeforeYear(y) + DaysBeforeMonth(y, m) + (d - 1)

RECURSIVE YearOf(_, _)
YearOf(n, y) == IF n < YearDays(y) THEN <<y, n>> ELSE YearOf(n - YearDays(y), y + 1)

RECURSIVE MonthOf(_, _, _)
MonthOf(n, y, m) == IF n < MonthDays(y, m) THEN <<m, n + 1>> ELSE MonthOf(n - MonthDays(y, m), y, m + 1)

\* <<year, month, day>> of a day ordinal n >= 0
FromOrdinal(n) ==
    LET yr == YearOf(n, Epoch[1])
        md == MonthOf(yr[2], yr[1], 1)
    IN <<yr[1], md[1], md[2]>>

\* A datetime: day ordinal, hour of the day, and whether it carries a UTC offset.
DateTime(ord, hour, aware) == [ord |-> ord, hour |-> hour, aware |-> aware]

\* datetime + timedelta(days = n)
PlusDays(dt, n) == [dt EXCEPT !.ord = dt.ord + n]

\* datetime.isoformat()
IsoFormat(dt) == FromOrdinal(dt.ord) \o <<dt.hour>> \o (IF dt.aware THEN <<0>> ELSE <<>>)

\* datetime.fromisoformat(s): a date-only string parses to midnight, naive
FromIsoFormat(s) ==
    DateTime(ToOrdinal(s[1], s[2], s[3]),
             IF Len(s) >= 4 THEN s[4] ELSE 0,
             Len(s) >= 5)

\* Python / MongoDB string order: lexicographic, a proper prefix is smaller
RECURSIVE StrLE(_, _)
StrLE(a, b) ==
    IF a = <<>> THEN TRUE
    ELSE IF b = <<>> THEN FALSE
    ELSE IF Head(a) < Head(b) THEN TRUE
    ELSE IF Head(a) > Head(b) THEN FALSE
    ELSE StrLE(Tail(a), Tail(b))

---------------------------------------------------------------------------
(* Arithmetic *)

\* round-half-even of n / d, d > 0 (\div and % are floor division and modulus)
RoundHalfEven(n, d) ==
    LET q == n \div d
        r == n % d
    IN IF 2 * r < d THEN q
       ELSE IF 2 * r > d THEN q + 1
       ELSE IF q % 2 = 0 THEN q ELSE q + 1

\* round(x, 2) of a value x given in 1/10000: the result in cents
Round2(x) == RoundHalfEven(x, 100)

\* floor of n * 10000 / d and its remainder, without forming n * 10000
ScaledFloor(n, d) ==
    LET a  == n \div d
        r  == n % d
        b  == (r * 100) \div d
        r2 == (r * 100) % d
        c  == (r2 * 100) \div d
        r3 == (r2 * 100) % d
    IN <<a * 10000 + b * 100 + c, r3>>

\* round(n / d * 100, 2) in hundredths of a percent, d > 0
PercentRound2(n, d) ==
    LET f == ScaledFloor(n, d)
    IN IF 2 * f[2] < d THEN f[1]
       ELSE IF 2 * f[2] > d THEN f[1] + 1
       ELSE IF f[1] % 2 = 0 THEN f[1] ELSE f[1] + 1

\* The value of an expression, or the exception it raises
Val(x) == [exc |-> "", v |-> x]
Raise(e) == [exc |-> e, v |-> 0]

---------------------------------------------------------------------------
(* Catalog and customer population *)

Products ==
    { [id |-> "PROD001", category |-> "Software",     lo |-> 99,  hi |-> 299],
      [id |-> "PROD002", category |-> "Software",     lo |-> 199, hi |-> 799],
      [id |-> "PROD003", category |-> "Analytics",    lo |-> 149, hi |-> 499],
      [id |-> "PROD004", category |-> "Security",     lo |-> 79,  hi |-> 249],
      [id |-> "PROD005", category |-> "Productivity", lo |-> 59,  hi |-> 199],
      [id |-> "PROD006", category |-> "Integration",  lo |-> 29,  hi |-> 99],
      [id |-> "PROD007", category |-> "AI/ML",        lo |-> 199, hi |-> 599],
      [id |-> "PROD008", category |-> "Storage",      lo |-> 19,  hi |-> 89] }

Product(pid) == CHOOSE x \in Products : x.id = pid

Segments == {"Enterprise", "SMB", "Individual"}

Regions == {"North America", "Europe", "Asia-Pacific", "Latin America", "Middle East & Africa"}

\* customers[i]: id i stands for f"CUST{i:04d}"; the model carries the first
\* thirteen of the five hundred, with one outcome of their random segment
\* and region
customers ==
    << [id |-> 1,  segment |-> "SMB",        region |-> "North America"],
       [id |-> 2,  segment |-> "Enterprise", region |-> "Europe"],
       [id |-> 3,  segment |-> "Individual", region |-> "North America"],
       [id |-> 4,  segment |-> "SMB",        region |-> "Asia-Pacific"],
       [id |-> 5,  segment |-> "Enterprise", region |-> "Latin America"],
       [id |-> 6,  segment |-> "Individual", region |-> "Middle East & Africa"],
       [id |-> 7,  segment |-> "SMB",        region |-> "Europe"],
       [id |-> 8,  segment |-> "SMB",        region |-> "North America"],
       [id |-> 9,  segment |-> "SMB",        region |-> "Europe"],
       [id |-> 10, segment |-> "Enterprise", region |-> "Asia-Pacific"],
       [id |-> 11, segment |-> "Individual", region |-> "Latin America"],
       [id |-> 12, segment |-> "SMB",        region |-> "North America"],
       [id |-> 13, segment |-> "Enterprise", region |-> "Europe"] >>

\* datetime.now(timezone.utc) of a generation run: 2025-12-31T10:..+00:00
Now == DateTime(ToOrdinal(2025, 12, 31), 10, TRUE)

StartDateOneYear(now) == PlusDays(now, 0 - 365)

\* start_date = now - timedelta(days = 730)
StartDate(now) == PlusDays(now, 0 - WindowDays)

---------------------------------------------------------------------------
(* One transaction slot of generate_sample_data *)

RECURSIVE Digits(_)
Digits(k) == IF k < 10 THEN <<k>> ELSE Digits(k \div 10) \o <<k % 10>>

RECURSIVE ZeroPad(_, _)
ZeroPad(s, w) == IF Len(s) >= w THEN s ELSE ZeroPad(<<0>> \o s, w)

TxnIdFromZero(k) == ZeroPad(Digits(k - 1), 6)

\* f"TXN{k:06d}": the digits after the constant prefix TXN
TxnId(k) == ZeroPad(Digits(k), 6)

\* unit_price *= random.uniform(..): factor in tenths, prices in 1/10000
SegmentAdjust(segment, unit_price, factor) ==
    IF segment = "Enterprise" THEN (unit_price * factor) \div 10
    ELSE IF segment = "Individual" THEN (unit_price * factor) \div 10
    ELSE unit_price

\* The random draws of one slot: day of the window, customer, product,
\* quantity, unit price (1/10000) and segment factor (tenths).
Draw(day, cust, pid, quantity, raw_price, factor) ==
    [day |-> day, cust |-> cust, pid |-> pid, quantity |-> quantity,
     raw_price |-> raw_price, factor |-> factor]

ValidDraw(d) ==
    /\ d.day \in 0..(WindowDays - 1)
    /\ d.cust \in 1..Len(customers)
    /\ d.pid \in {x.id : x \in Products}
    /\ d.quantity \in 1..10
    /\ Product(d.pid).lo * 10000 <= d.raw_price
    /\ d.raw_price <= Product(d.pid).hi * 10000
    /\ LET seg == customers[d.cust].segment
       IN IF seg = "Enterprise" THEN d.factor \in 12..18
          ELSE IF seg = "Individual" THEN d.factor \in 7..9
          ELSE d.factor = 10

\* The stored total: quantity * unit_price on the adjusted, unrounded price
TotalAmount(quantity, unit_price) == quantity * unit_price

\* SalesRecord(...) of slot k of a run, as stored (prepare_for_mongo(record.dict()))
MakeRecord(run, k, now, d) ==
    LET customer == customers[d.cust]
        current_date == PlusDays(StartDate(now), d.day)
        unit_price == SegmentAdjust(customer.segment, d.raw_price, d.factor)
        total_amount == TotalAmount(d.quantity, unit_price)
    IN [ id |-> <<run, k>>,
         transaction_id |-> TxnId(k),
         date |-> IsoFormat(current_date),
         customer_id |-> customer.id,
         customer_segment |-> customer.segment,
         product_id |-> d.pid,
         product_category |-> Product(d.pid).category,
         quantity |-> d.quantity,
         unit_price |-> Round2(unit_price),
         total_amount |-> Round2(total_amount),
         region |-> customer.region ]

\* The day loop runs in ascending day order: the draws of a run are sorted by day.
DrawSeqs(D, maxlen) ==
    UNION { { s \in [1..n -> D] : \A i \in 1..(n - 1) : s[i].day <= s[i + 1].day }
            : n \in 1..maxlen }

\* sales_records of a run whose slots drew ds
Batch(run, now, ds) == [k \in 1..Len(ds) |-> MakeRecord(run, k, now, ds[k])]

---------------------------------------------------------------------------
(* generate_sample_data, one coroutine per request slot.  The awaits are  *)
(* the points where other requests run: count_documents, and insert_many, *)
(* which writes the documents one after the other.                        *)

GenDraws == { Draw(0, 1, "PROD001", 1, 1000000, 10) }

AlreadyExistsOffByOne(n) == n > 1

\* if existing_count > 0
AlreadyExists(n) == n > 0

GenCheck(p) ==
    /\ pc[p] = "idle"
    /\ calls[p] < MaxCalls
    /\ calls' = [calls EXCEPT ![p] = @ + 1]
    /\ IF AlreadyExists(Len(store))
       THEN /\ response' = [response EXCEPT ![p] = [message |-> "exists", count |-> Len(store)]]
            /\ UNCHANGED <<pc, existing_count, sales_records, inserted>>
       ELSE /\ \E ds \in DrawSeqs(GenDraws, MaxBatch) :
                 sales_records' = [sales_records EXCEPT ![p] = Batch(<<p, calls[p] + 1>>, Now, ds)]
            /\ existing_count' = [existing_count EXCEPT ![p] = Len(store)]
            /\ inserted' = [inserted EXCEPT ![p] = 0]
            /\ pc' = [pc EXCEPT ![p] = "insert"]
            /\ UNCHANGED response
    /\ UNCHANGED <<store, anaVars, loopVars>>

InsertOneReplacing(docs, doc) == <<doc>>

\* The write of one document of an insert_many batch
InsertOne(docs, doc) == Append(docs, doc)

GenInsert(p) ==
    /\ pc[p] = "insert"
    /\ inserted[p] < Len(sales_records[p])
    /\ store' = InsertOne(store, sales_records[p][inserted[p] + 1])
    /\ IF inserted[p] + 1 = Len(sales_records[p])
       THEN \* the call returns and its locals go away
            /\ pc' = [pc EXCEPT ![p] = "idle"]
            /\ response' = [response EXCEPT ![p] =
                     [message |-> "generated", count |-> Len(sales_records[p])]]
            /\ existing_count' = [existing_count EXCEPT ![p] = 0]
            /\ sales_records' = [sales_records EXCEPT ![p] = <<>>]
            /\ inserted' = [inserted EXCEPT ![p] = 0]
       ELSE /\ inserted' = [inserted EXCEPT ![p] = @ + 1]
            /\ UNCHANGED <<pc, response, existing_count, sales_records>>
    /\ UNCHANGED <<calls, anaVars, loopVars>>

NoReply == [status |-> 0, detail |-> "", body |-> [empty |-> TRUE]]
NoRequest == [op |-> "none"]

AnaInit ==
    /\ request = NoRequest
    /\ reply = NoReply
    /\ sales_data = <<>>
    /\ prev_data = <<>>
    /\ customer_data = {}
    /\ monthly_data = <<>>
    /\ product_data = <<>>
    /\ previous = NoRequest

LoopInit ==
    /\ loop = "day"
    /\ day_of_run = 0
    /\ drawn = 0
    /\ base_transactions = 0
    /\ slot = 0
    /\ last_date = <<>>

GenInit ==
    /\ pc = [p \in Procs |-> "idle"]
    /\ existing_count = [p \in Procs |-> 0]
    /\ sales_records = [p \in Procs |-> <<>>]
    /\ inserted = [p \in Procs |-> 0]
    /\ response = [p \in Procs |-> [message |-> "none", count |-> 0]]
    /\ calls = [p \in Procs |-> 0]
    /\ LoopInit

Init ==
    /\ store = <<>>
    /\ GenInit
    /\ AnaInit

Next == \E p \in Procs : GenCheck(p) \/ GenInsert(p)

Spec == Init /\ [][Next]_vars
\* The generation run (request slot and call number) that produced a stored document
RunOf(r) == r.id[1]

RunsInStore == { RunOf(store[i]) : i \in 1..Len(store) }

\* C1: against one initially empty store, at most one generate_sample_data
\* call ever inserts records: the store never holds the output of two runs.
C1_AtMostOneRunInserts == Cardinality(RunsInStore) <= 1

\* C2: a generate_sample_data call that finds at least one stored transaction
\* writes nothing, returns normally and reports the pre-existing count, on
\* every repetition.
C2_NoOpWhenDataExists ==
    [][\A p \in Procs :
         (pc[p] = "idle" /\ calls'[p] = calls[p] + 1 /\ Len(store) > 0)
           => /\ store' = store
              /\ pc'[p] = "idle"
              /\ response'[p] = [message |-> "exists", count |-> Len(store)]]_vars

C2_Witness ==
    \E p \in Procs :
        /\ calls[p] >= 2
        /\ pc[p] = "idle"
        /\ response[p].message = "exists"
        /\ response[p].count = Len(store)
        /\ Len(store) > 0

---------------------------------------------------------------------------
(* The slot loop of generate_sample_data on its own: one slot per step *)

RecordDraws ==
    { d \in { Draw(day, c, "PROD008", q, raw, f) :
                day \in {0, WindowDays - 1}, c \in 1..3, q \in {1, 10},
                raw \in {190040, 890000}, f \in {7, 9, 10, 12, 18} } : ValidDraw(d) }

EmitRecord ==
    /\ Len(sales_records[1]) < MaxSlots
    /\ \E d \in RecordDraws :
          LET k == Len(sales_records[1]) + 1
              rec == MakeRecord(<<1, 1>>, k, Now, d)
          IN /\ k > 1 => StrLE(sales_records[1][k - 1].date, rec.date)
             /\ sales_records' = [sales_records EXCEPT ![1] = Append(@, rec)]
    /\ UNCHANGED <<store, pc, existing_count, inserted, response, calls, anaVars, loopVars>>

SpecRecord == Init /\ [][EmitRecord]_vars

\* C5: every transaction emitted by generation has
\* total_amount = round(quantity * unit_price, 2) on its stored unit_price.
C5_TotalMatchesStoredPrice ==
    \A p \in Procs : \A i \in 1..Len(sales_records[p]) :
        LET r == sales_records[p][i]
        IN r.total_amount = RoundHalfEven(r.quantity * r.unit_price, 1)

---------------------------------------------------------------------------
(* The transaction counter over a longer run of slots, all of one day *)

MaxTxn == 11

TxnDraws == { Draw(0, c, "PROD001", 1, 1000000, IF c = 2 THEN 15 ELSE 10) : c \in {1, 2} }

EmitTxn ==
    /\ Len(sales_records[1]) < MaxTxn
    /\ \E d \in TxnDraws :
          sales_records' = [sales_records EXCEPT ![1] =
                               Append(@, MakeRecord(<<1, 1>>, Len(@) + 1, Now, d))]
    /\ UNCHANGED <<store, pc, existing_count, inserted, response, calls, anaVars, loopVars>>

SpecTxn == Init /\ [][EmitTxn]_vars

\* The number a string of decimal digits denotes
RECURSIVE DigitsValue(_)
DigitsValue(s) == IF s = <<>> THEN 0 ELSE DigitsValue(SubSeq(s, 1, Len(s) - 1)) * 10 + s[Len(s)]

StrLT(a, b) == StrLE(a, b) /\ a # b

\* C11: within one generation run the k-th emitted transaction has the id
\* TXN followed by k zero-padded to 6 digits, counting from 1: the ids are
\* pairwise distinct, strictly increasing in emission order and without gaps.
C11_SequentialTransactionIds ==
    LET recs == sales_records[1]
    IN /\ \A k \in DOMAIN recs :
             /\ Len(recs[k].transaction_id) = 6
             /\ \A j \in 1..6 : recs[k].transaction_id[j] \in 0..9
             /\ DigitsValue(recs[k].transaction_id) = k
       /\ \A i \in DOMAIN recs : \A j \in DOMAIN recs :
             i < j => StrLT(recs[i].transaction_id, recs[j].transaction_id)

\* a run that reaches a two-digit counter: the tenth id is TXN000010
C11_Witness ==
    /\ Len(sales_records[1]) >= 10
    /\ sales_records[1][10].transaction_id = <<0, 0, 0, 0, 1, 0>>
    /\ sales_records[1][9].transaction_id = <<0, 0, 0, 0, 0, 9>>
---------------------------------------------------------------------------
(* The day loop of generate_sample_data.  The records appended by the     *)
(* inner loop are followed by their number per day and by the date of the *)
(* last one; what a record holds is the subject of the slot loop above.   *)

\* datetime.weekday(): Monday is 0; the first day of the calendar was a Friday
Weekday(dt) == (dt.ord + 4) % 7

\* datetime.month
MonthNumber(dt) == FromOrdinal(dt.ord)[2]

\* The bounds of random.randint for a month
DayRange(month) ==
    IF month \in {11, 12} THEN 15..35
    ELSE IF month \in {6, 7, 8} THEN 5..15
    ELSE 8..20

WeekendCountRounded(n) == RoundHalfEven(n * 6, 10)

\* int(base_transactions * 0.6): for every n of 5..35 the float product
\* truncates to floor(6 * n / 10)
WeekendCount(n) == (n * 6) \div 10

BaseTransactions(current_date, n) ==
    IF Weekday(current_date) >= 5 THEN WeekendCount(n) ELSE n

\* current_date = start_date + timedelta(days = day)
CurrentDate(now, d) == PlusDays(StartDate(now), d)

\* for day in range(730): the draw of the day and the weekend effect
DayHeader ==
    /\ loop = "day"
    /\ day_of_run < WindowDays
    /\ LET current_date == CurrentDate(Now, day_of_run)
       IN \E n \in DayRange(MonthNumber(current_date)) :
             /\ drawn' = n
             /\ base_transactions' = BaseTransactions(current_date, n)
    /\ slot' = 0
    /\ loop' = "slot"
    /\ UNCHANGED <<day_of_run, last_date>>
    /\ UNCHANGED <<store, pc, existing_count, sales_records, inserted, response, calls, anaVars>>

\* for _ in range(base_transactions): one record appended
AppendRecord ==
    /\ loop = "slot"
    /\ slot < base_transactions
    /\ slot' = slot + 1
    /\ last_date' = IsoFormat(CurrentDate(Now, day_of_run))
    /\ UNCHANGED <<loop, day_of_run, drawn, base_transactions>>
    /\ UNCHANGED <<store, pc, existing_count, sales_records, inserted, response, calls, anaVars>>

\* The inner loop is exhausted: the next day, or the end of the day loop
NextDay ==
    /\ loop = "slot"
    /\ slot = base_transactions
    /\ day_of_run' = day_of_run + 1
    /\ loop' = IF day_of_run + 1 < WindowDays THEN "day" ELSE "done"
    /\ UNCHANGED <<drawn, base_transactions, slot, last_date>>
    /\ UNCHANGED <<store, pc, existing_count, sales_records, inserted, response, calls, anaVars>>

DaysNext == DayHeader \/ AppendRecord \/ NextDay

SpecDays == Init /\ [][DaysNext]_vars

\* Days between the date of an ISO string and now
DaysBefore(s) == Now.ord - FromIsoFormat(s).ord

\* C13: every record of a run started at now is dated inside the trailing
\* window, now - 730 days <= date <= now, and the run visits the 730 days
\* of the window once each, in ascending order.
C13_DatesInsideWindow ==
    /\ [](/\ day_of_run \in 0..730
          /\ last_date # <<>> =>
                /\ DaysBefore(last_date) \in 1..730
                /\ last_date[4] = Now.hour
                /\ StrLE(last_date, IsoFormat(Now))
          /\ (loop = "slot" /\ slot > 0) => DaysBefore(last_date) = 730 - day_of_run)
    /\ [][/\ day_of_run' # day_of_run => day_of_run' = day_of_run + 1
          /\ (loop = "day" /\ loop' # "day") => (loop' = "slot" /\ day_of_run' = day_of_run)
          /\ loop' = "done" => day_of_run' = 730]_vars

\* the day loop has ended: the last record is dated the day before now
C13_Witness ==
    /\ loop = "done"
    /\ day_of_run = 730
    /\ last_date = <<2025, 12, 30, 10, 0>>

\* The window of the run starts on Monday 2024-01-01: the weekday and the
\* month of a day follow from its index
IsWeekendDay(d) == d % 7 \in {5, 6}

\* C18: the number of transactions of a day comes from one draw n of the
\* range of its month (15..35 in months 11-12, 5..15 in months 6-8, 8..20
\* otherwise): exactly n on a weekday, exactly floor(0.6 * n) on a Saturday
\* or Sunday, the dampening applied after the draw.
C18_DailyCountFromOneDraw ==
    /\ [](loop = "slot" =>
            LET month == FromOrdinal(Now.ord - 730 + day_of_run)[2]
            IN /\ month \in {11, 12} => drawn \in 15..35
               /\ month \in {6, 7, 8} => drawn \in 5..15
               /\ month \notin {6, 7, 8, 11, 12} => drawn \in 8..20
               /\ base_transactions =
                     (IF IsWeekendDay(day_of_run) THEN (3 * drawn) \div 5 ELSE drawn)
               /\ slot <= base_transactions)
    /\ [][day_of_run' # day_of_run =>
             (slot = base_transactions /\ drawn' = drawn /\ slot' = slot)]_vars

\* a Saturday of December with an odd draw: 21 drawn, 12 records appended
C18_Witness ==
    /\ loop = "slot"
    /\ IsWeekendDay(day_of_run)
    /\ FromOrdinal(Now.ord - 730 + day_of_run)[2] = 12
    /\ drawn = 21
    /\ slot = 12
    /\ base_transactions = 12

---------------------------------------------------------------------------
(* The query layer: db.sales.find(filter) *)

NoBody == [empty |-> TRUE]

\* raise HTTPException(status_code, detail) / any other exception type
HTTPException(status) == [type |-> "HTTPException", status |-> status]
PyException(type) == [type |-> type, status |-> 0]

\* A normal return of a handler, and the handlers' "except Exception as e:
\* raise HTTPException(status_code=500, detail=f"Error ...: {str(e)}")"
Ok(body) == [status |-> 200, detail |-> "", body |-> body]
ExceptException(e) == [status |-> 500, detail |-> e.type, body |-> NoBody]

\* query_filter of get_sales_analytics
QueryFilter(start_date, end_date, region) ==
    [ has_date |-> start_date # <<>> /\ end_date # <<>>,
      gte |-> start_date,
      lte |-> end_date,
      has_region |-> region # "" /\ region # "all",
      region |-> region ]

\* {"date": {"$gte": .., "$lte": ..}, "region": ..} on one document
Matches(r, qf) ==
    /\ qf.has_date => (StrLE(qf.gte, r.date) /\ StrLE(r.date, qf.lte))
    /\ qf.has_region => r.region = qf.region

Find(docs, qf) == SelectSeq(docs, LAMBDA r : Matches(r, qf))

RECURSIVE SumAmounts(_)
SumAmounts(docs) == IF docs = <<>> THEN 0 ELSE Head(docs).total_amount + SumAmounts(Tail(docs))

---------------------------------------------------------------------------
(* get_sales_analytics *)

\* Python division: raises on a zero divisor
DivRound(n, d) == IF d = 0 THEN Raise("ZeroDivisionError") ELSE Val(RoundHalfEven(n, d))
DivPercent(n, d) == IF d = 0 THEN Raise("ZeroDivisionError") ELSE Val(PercentRound2(n, d))
DivRatio(n, d) == IF d = 0 THEN Raise("ZeroDivisionError")
                  ELSE Val(IF n = 0 THEN <<0, 1>> ELSE <<n, d>>)

\* round(total_revenue / total_transactions if total_transactions > 0 else 0, 2), cents
AverageOrderValue(total_revenue, total_transactions) ==
    IF total_transactions > 0 THEN DivRound(total_revenue, total_transactions) ELSE Val(0)

RevenueGrowthUnguarded(total_revenue, prev_revenue) ==
    DivPercent(total_revenue - prev_revenue, prev_revenue)

\* round(((total - prev) / prev * 100) if prev > 0 else 0, 2)
RevenueGrowth(total_revenue, prev_revenue) ==
    IF prev_revenue > 0 THEN DivPercent(total_revenue - prev_revenue, prev_revenue) ELSE Val(0)

\* ((n - p) / p * 100) if p > 0 else 0, unrounded: the exact ratio <<num, den>>
TransactionGrowth(n, p) ==
    IF p > 0 THEN DivRatio((n - p) * 100, p) ELSE Val(<<0, 1>>)

Hours(dt) == dt.ord * 24 + dt.hour

\* start_dt - (end_dt - start_dt)
PrevStart(start_dt, end_dt) ==
    LET h == Hours(start_dt) - (Hours(end_dt) - Hours(start_dt))
    IN DateTime(h \div 24, h % 24, start_dt.aware)

ZeroComparison == [revenue_growth |-> 0, previous_revenue |-> 0, transaction_growth |-> <<0, 1>>]

\* The handler on the collection as read by its first find (docs1) and by
\* its second find (docs2); conversion_rate is the random.uniform draw.
SalesAnalytics(docs1, docs2, start_date, end_date, region, conversion_rate) ==
    LET query_filter == QueryFilter(start_date, end_date, region)
        data == Find(docs1, query_filter)
        total_revenue == SumAmounts(data)
        total_transactions == Len(data)
        aov == AverageOrderValue(total_revenue, total_transactions)
        start_dt == FromIsoFormat(start_date)
        end_dt == FromIsoFormat(end_date)
        prev_query == [query_filter EXCEPT
                          !.gte = IsoFormat(PrevStart(start_dt, end_dt)),
                          !.lte = IsoFormat(start_dt)]
        prev == Find(docs2, prev_query)
        prev_revenue == SumAmounts(prev)
        rg == RevenueGrowth(total_revenue, prev_revenue)
        tg == TransactionGrowth(total_transactions, Len(prev))
        body(pcmp) == [ total_revenue |-> total_revenue,
                        total_transactions |-> total_transactions,
                        average_order_value |-> aov.v,
                        conversion_rate |-> conversion_rate,
                        period_comparison |-> pcmp ]
    IN IF data = <<>>
       THEN [reply |-> ExceptException(HTTPException(404)), sales_data |-> data, prev_data |-> <<>>]
       ELSE IF aov.exc # ""
       THEN [reply |-> ExceptException(PyException(aov.exc)), sales_data |-> data, prev_data |-> <<>>]
       ELSE IF ~query_filter.has_date
       THEN [reply |-> Ok(body(ZeroComparison)), sales_data |-> data, prev_data |-> <<>>]
       ELSE IF start_dt.aware # end_dt.aware
       THEN [reply |-> ExceptException(PyException("TypeError")), sales_data |-> data, prev_data |-> <<>>]
       ELSE IF rg.exc # ""
       THEN [reply |-> ExceptException(PyException(rg.exc)), sales_data |-> data, prev_data |-> prev]
       ELSE IF tg.exc # ""
       THEN [reply |-> ExceptException(PyException(tg.exc)), sales_data |-> data, prev_data |-> prev]
       ELSE [reply |-> Ok(body([revenue_growth |-> rg.v,
                                 previous_revenue |-> prev_revenue,
                                 transaction_growth |-> tg.v])),
             sales_data |-> data, prev_data |-> prev]

ConversionRates == {250, 850}

\* A request waits for its handler until the reply is written
Pending(op) == request.op = op /\ reply = NoReply

\* The request for op has been answered
Replied(op) == request.op = op /\ reply # NoReply

SalesRequest(start_date, end_date, region) ==
    [op |-> "sales", start_date |-> start_date, end_date |-> end_date, region |-> region]

GetSalesAnalytics ==
    /\ Pending("sales")
    /\ \E conversion_rate \in ConversionRates :
        LET out == SalesAnalytics(store, store, request.start_date, request.end_date,
                                  request.region, conversion_rate)
        IN /\ reply' = out.reply
           /\ sales_data' = out.sales_data
           /\ prev_data' = out.prev_data
           /\ UNCHANGED <<store, genVars, request, customer_data, monthly_data,
                          product_data, previous>>
---------------------------------------------------------------------------
(* The aggregation layer: db.sales.aggregate([{"$group": ...}]) *)

Prefix(s, n) == SubSeq(s, 1, IF Len(s) < n THEN Len(s) ELSE n)

Suffix(s, n) == SubSeq(s, IF Len(s) < n THEN 1 ELSE Len(s) - n + 1, Len(s))

---------------------------------------------------------------------------
(* get_customer_analytics *)

\* "_id": "$customer_id"
CustomerKey(r) == r.customer_id

\* The group keys, and the documents of one group in collection order
CustomerKeys(docs) == { CustomerKey(docs[i]) : i \in 1..Len(docs) }

CustomerDocs(docs, k) == SelectSeq(docs, LAMBDA r : CustomerKey(r) = k)

\* One row of the $group by customer_id ($first of segment, $sum of
\* total_amount, $sum of 1); name, first_purchase and last_purchase are
\* carried by the pipeline and never read by the handler.
CustomerRow(docs, k) ==
    LET g == CustomerDocs(docs, k)
    IN [ _id |-> k,
         segment |-> g[1].customer_segment,
         total_revenue |-> SumAmounts(g),
         transaction_count |-> Len(g) ]

CustomerGroups(docs) == { CustomerRow(docs, k) : k \in CustomerKeys(docs) }

ReturningCustomersAtLeastOne(rows) == Cardinality({ c \in rows : c.transaction_count >= 1 })

\* sum(1 for customer in customer_data if customer["transaction_count"] > 1)
ReturningCustomers(rows) == Cardinality({ c \in rows : c.transaction_count > 1 })

\* round((returning / total * 100) if total > 0 else 0, 2)
RetentionRate(returning_customers, total_customers) ==
    IF total_customers > 0 THEN DivPercent(returning_customers, total_customers) ELSE Val(0)

\* sorted(rows, key = total_revenue, reverse = True): the sort is stable and
\* the $group output order is unspecified, so equal revenues come in any order.
RECURSIVE SortedByRevenue(_)
SortedByRevenue(rows) ==
    IF rows = {} THEN { <<>> }
    ELSE UNION { { <<x>> \o s : s \in SortedByRevenue(rows \ {x}) } :
                 x \in { y \in rows : \A z \in rows : y.total_revenue >= z.total_revenue } }

TopCustomers(sorted) ==
    LET top == Prefix(sorted, TopLimit)
    IN [ i \in DOMAIN top |-> [ id |-> top[i]._id,
                                revenue |-> top[i].total_revenue,
                                transactions |-> top[i].transaction_count ] ]

\* Sum of total_revenue and of transaction_count over a set of $group rows
RECURSIVE RowsRevenue(_)
RowsRevenue(rows) ==
    IF rows = {} THEN 0
    ELSE LET c == CHOOSE x \in rows : TRUE IN c.total_revenue + RowsRevenue(rows \ {c})

RECURSIVE RowsCount(_)
RowsCount(rows) ==
    IF rows = {} THEN 0
    ELSE LET c == CHOOSE x \in rows : TRUE IN c.transaction_count + RowsCount(rows \ {c})

SegmentStats(rows) ==
    [ seg \in { c.segment : c \in rows } |->
        LET members == { c \in rows : c.segment = seg }
        IN [ count |-> Cardinality(members), revenue |-> RowsRevenue(members) ] ]

GetCustomerAnalytics ==
    LET rows == CustomerGroups(store)
        total_customers == Cardinality(rows)
        returning_customers == ReturningCustomers(rows)
        rate == RetentionRate(returning_customers, total_customers)
    IN /\ Pending("customers")
       /\ customer_data' = rows
       /\ IF rate.exc # ""
          THEN reply' = ExceptException(PyException(rate.exc))
          ELSE \E sorted \in SortedByRevenue(rows) :
                  reply' = Ok([ total_customers |-> total_customers,
                                returning_customers |-> returning_customers,
                                customer_retention_rate |-> rate.v,
                                top_customers |-> TopCustomers(sorted),
                                segment_breakdown |-> SegmentStats(rows) ])
       /\ UNCHANGED <<store, genVars, request, sales_data, prev_data, monthly_data,
                      product_data, previous>>

---------------------------------------------------------------------------
(* get_product_analytics *)

\* "_id": "$product_id"
ProductKey(r) == r.product_id

ProductKeys(docs) == { ProductKey(docs[i]) : i \in 1..Len(docs) }

ProductDocs(docs, k) == SelectSeq(docs, LAMBDA r : ProductKey(r) = k)

RECURSIVE SumQuantity(_)
SumQuantity(docs) == IF docs = <<>> THEN 0 ELSE Head(docs).quantity + SumQuantity(Tail(docs))

RECURSIVE SumPrices(_)
SumPrices(docs) == IF docs = <<>> THEN 0 ELSE Head(docs).unit_price + SumPrices(Tail(docs))

\* One row of the $group by product_id ($first of category, $sum of
\* total_amount, $sum of quantity, $avg of unit_price rounded to cents as
\* the handler reports it); name is carried and only copied.
ProductRow(docs, k) ==
    LET g == ProductDocs(docs, k)
    IN [ _id |-> k,
         category |-> g[1].product_category,
         total_revenue |-> SumAmounts(g),
         units_sold |-> SumQuantity(g),
         avg_price |-> RoundHalfEven(SumPrices(g), Len(g)) ]

ProductGroups(docs) == { ProductRow(docs, k) : k \in ProductKeys(docs) }

TopProductsAscending(sorted) ==
    LET n == Len(sorted)
        top == Prefix([ i \in 1..n |-> sorted[n + 1 - i] ], TopLimit)
    IN [ i \in DOMAIN top |-> [ id |-> top[i]._id,
                                category |-> top[i].category,
                                revenue |-> top[i].total_revenue,
                                units_sold |-> top[i].units_sold,
                                avg_price |-> top[i].avg_price ] ]

\* product_data[:10], field by field
TopProducts(sorted) ==
    LET top == Prefix(sorted, TopLimit)
    IN [ i \in DOMAIN top |-> [ id |-> top[i]._id,
                                category |-> top[i].category,
                                revenue |-> top[i].total_revenue,
                                units_sold |-> top[i].units_sold,
                                avg_price |-> top[i].avg_price ] ]

\* The $group by product_category, as the dict the handler builds from it
CategoryPerformance(docs) ==
    [ cat \in { docs[i].product_category : i \in 1..Len(docs) } |->
        LET g == SelectSeq(docs, LAMBDA r : r.product_category = cat)
        IN [ revenue |-> SumAmounts(g),
             units_sold |-> SumQuantity(g),
             transactions |-> Len(g) ] ]

\* random.randint(3, 8), random.randint(5, 12), random.randint(2, 6)
InventoryDraws ==
    { [low_stock_alert |-> 3, fast_moving_items |-> 5, slow_moving_items |-> 2],
      [low_stock_alert |-> 8, fast_moving_items |-> 12, slow_moving_items |-> 6] }

GetProductAnalytics ==
    /\ Pending("products")
    /\ \E sorted \in SortedByRevenue(ProductGroups(store)) :
        \E inventory_insights \in InventoryDraws :
          /\ product_data' = sorted
          /\ reply' = Ok([ top_products |-> TopProducts(sorted),
                           category_performance |-> CategoryPerformance(store),
                           inventory_insights |-> inventory_insights ])
    /\ UNCHANGED <<store, genVars, request, sales_data, prev_data, customer_data,
                   monthly_data, previous>>

---------------------------------------------------------------------------
(* get_seasonal_trends *)

\* $dateToString "%Y-%m" of $dateFromString of the stored date: <<year, month>>
MonthKey(r) == <<r.date[1], r.date[2]>>

MonthKeys(docs) == { MonthKey(docs[i]) : i \in 1..Len(docs) }

MonthDocs(docs, k) == SelectSeq(docs, LAMBDA r : MonthKey(r) = k)

MonthRowFirstOnly(docs, k) ==
    LET g == MonthDocs(docs, k)
    IN [ _id |-> k, revenue |-> g[1].total_amount, transactions |-> 1 ]

\* One row of the $group by month ($sum of total_amount, $sum of 1)
MonthRow(docs, k) ==
    LET g == MonthDocs(docs, k)
    IN [ _id |-> k, revenue |-> SumAmounts(g), transactions |-> Len(g) ]

\* {"$sort": {"_id": 1}}: ascending by the month string
RECURSIVE SortKeys(_)
SortKeys(K) ==
    IF K = {} THEN <<>>
    ELSE LET m == CHOOSE x \in K : \A y \in K : StrLE(x, y)
         IN <<m>> \o SortKeys(K \ {m})

MonthlyGroups(docs) ==
    LET keys == SortKeys(MonthKeys(docs))
    IN [ i \in DOMAIN keys |-> MonthRow(docs, keys[i]) ]

\* int(item["_id"].split("-")[1]) and the quarter it falls in
Quarter(k) ==
    LET month_num == k[2]
    IN IF month_num \in {1, 2, 3} THEN "Q1"
       ELSE IF month_num \in {4, 5, 6} THEN "Q2"
       ELSE IF month_num \in {7, 8, 9} THEN "Q3"
       ELSE "Q4"

RECURSIVE SumRevenue(_)
SumRevenue(rows) == IF rows = <<>> THEN 0 ELSE Head(rows).revenue + SumRevenue(Tail(rows))

RECURSIVE SumTransactions(_)
SumTransactions(rows) == IF rows = <<>> THEN 0 ELSE Head(rows).transactions + SumTransactions(Tail(rows))

SeasonalPatterns(rows) ==
    [ q \in { Quarter(rows[i]._id) : i \in DOMAIN rows } |->
        LET members == SelectSeq(rows, LAMBDA item : Quarter(item._id) = q)
        IN [ revenue |-> SumRevenue(members), transactions |-> SumTransactions(members) ] ]

\* item["revenue"] > avg_revenue * 1.2 with avg_revenue = total / n
IsPeak(revenue, total, n) == revenue * n * 10 > total * 12

PeakPeriodsOverTrend(rows) ==
    LET last == Suffix(rows, TrendMonths)
        total == SumRevenue(last)
        n == Len(last)
        peaks == SelectSeq(rows, LAMBDA item : IsPeak(item.revenue, total, n))
    IN [ i \in DOMAIN peaks |->
           [ period |-> peaks[i]._id,
             revenue |-> peaks[i].revenue,
             above_average |-> PercentRound2(peaks[i].revenue * n - total, total) ] ]

\* The qualifying months in series order, before the [:6] slice; an empty
\* series has none ("if monthly_data:")
PeakPeriods(rows) ==
    LET total == SumRevenue(rows)
        n == Len(rows)
        peaks == SelectSeq(rows, LAMBDA item : IsPeak(item.revenue, total, n))
    IN [ i \in DOMAIN peaks |->
           [ period |-> peaks[i]._id,
             revenue |-> peaks[i].revenue,
             above_average |-> PercentRound2(peaks[i].revenue * n - total, total) ] ]

MonthlyTrendsOldest(rows) ==
    LET first == Prefix(rows, TrendMonths)
    IN [ labels |-> [ i \in DOMAIN first |-> first[i]._id ],
         revenue |-> [ i \in DOMAIN first |-> first[i].revenue ],
         transactions |-> [ i \in DOMAIN first |-> first[i].transactions ] ]

\* monthly_data[-12:] for the labels, the revenue and the transactions
MonthlyTrends(rows) ==
    LET last == Suffix(rows, TrendMonths)
    IN [ labels |-> [ i \in DOMAIN last |-> last[i]._id ],
         revenue |-> [ i \in DOMAIN last |-> last[i].revenue ],
         transactions |-> [ i \in DOMAIN last |-> last[i].transactions ] ]

GetSeasonalTrends ==
    LET rows == MonthlyGroups(store)
    IN /\ Pending("seasonal")
       /\ monthly_data' = rows
       /\ reply' = Ok([ monthly_trends |-> MonthlyTrends(rows),
                        seasonal_patterns |-> SeasonalPatterns(rows),
                        peak_periods |-> Prefix(PeakPeriods(rows), PeakLimit) ])
       /\ UNCHANGED <<store, genVars, request, sales_data, prev_data, customer_data,
                      product_data, previous>>

---------------------------------------------------------------------------
(* The analytics handlers over a collection filled by one generation run *)

\* The collection after a complete run whose slots drew ds
StoreOf(ds) == Batch(<<1, 1>>, Now, ds)

\* One request against such a collection
StoreInit(stores, requests) ==
    /\ store \in stores
    /\ GenInit
    /\ request \in requests
    /\ reply = NoReply
    /\ sales_data = <<>>
    /\ prev_data = <<>>
    /\ customer_data = {}
    /\ monthly_data = <<>>
    /\ product_data = <<>>
    /\ previous = NoRequest

\* Sales requests: days 10 and 20 of the window are 2024-01-11 and 2024-01-21
SalesDraws ==
    { Draw(day, c, "PROD001", q, 1000000, IF c = 2 THEN 15 ELSE 10) :
        day \in {10, 20}, c \in {1, 2}, q \in {1, 5} }

SalesStores == {<<>>} \cup { StoreOf(ds) : ds \in DrawSeqs(SalesDraws, MaxSalesStore) }

QueryDates ==
    { <<>>, <<2024, 1, 11>>, <<2024, 1, 21>>, <<2024, 1, 31>>, <<2024, 1, 21, 23>>,
      <<2024, 1, 11, 10, 0>>, <<2024, 1, 21, 10, 0>> }

QueryRegions == {"", "all", "Europe"}

SalesRequests ==
    { SalesRequest(start_date, end_date, region) :
        start_date \in QueryDates, end_date \in QueryDates, region \in QueryRegions }
      \cup {[op |-> "customers"]}

SalesNext == GetSalesAnalytics \/ GetCustomerAnalytics

SpecSales == StoreInit(SalesStores, SalesRequests) /\ [][SalesNext]_vars

\* Grouping requests: days 10, 100 and 400 of the window are 2024-01-11,
\* 2024-04-10 and 2025-02-04
AggDraws ==
    { Draw(day, c, "PROD001", q, 1000000, IF c = 2 THEN 15 ELSE 10) :
        day \in {10, 100, 400}, c \in {1, 2}, q \in {1, 2, 3} }

AggStores == {<<>>} \cup { StoreOf(ds) : ds \in DrawSeqs(AggDraws, MaxStore) }

AggNext == GetCustomerAnalytics \/ GetSeasonalTrends

SpecAgg == StoreInit(AggStores, {[op |-> "customers"], [op |-> "seasonal"]}) /\ [][AggNext]_vars

\* Seasonal requests: each of the first n months of the window (month 1 is
\* 2024-01) holds one transaction, dated the 15th, of quantity 1 or 5
MonthDay(i) ==
    ToOrdinal(2024 + ((i - 1) \div 12), ((i - 1) % 12) + 1, 15) - StartDate(Now).ord

MonthDraws(f) ==
    [ i \in DOMAIN f |-> Draw(MonthDay(i), 1, "PROD008", f[i], 200000, 10) ]

MonthStores ==
    { StoreOf(MonthDraws(f)) : f \in UNION { [1..n -> {1, 5}] : n \in 0..MaxMonths } }

SpecSeasonal == StoreInit(MonthStores, {[op |-> "seasonal"]}) /\ [][GetSeasonalTrends]_vars
---------------------------------------------------------------------------
(* Generation and analytics requests side by side.  One request slot      *)
(* generates; analytics requests arrive one after the other and each is   *)
(* answered from the collection as it is at that moment, also in the      *)
(* middle of an insert_many.                                              *)

\* insert_many raises before it writes its next document (connection loss,
\* write error): the documents already written stay, the exception leaves
\* generate_sample_data and its route, which have no handler for it.
GenFail(p) ==
    /\ pc[p] = "insert"
    /\ pc' = [pc EXCEPT ![p] = "idle"]
    /\ response' = [response EXCEPT ![p] = [message |-> "error", count |-> 0]]
    /\ existing_count' = [existing_count EXCEPT ![p] = 0]
    /\ sales_records' = [sales_records EXCEPT ![p] = <<>>]
    /\ inserted' = [inserted EXCEPT ![p] = 0]
    /\ UNCHANGED <<store, calls, anaVars, loopVars>>

\* What is known of the request answered before
Answered(req, rep) == [op |-> "answered", request |-> req, reply |-> rep]

\* The next analytics request arrives once the one before it is answered
Arrive(requests) ==
    /\ request = NoRequest \/ reply # NoReply
    /\ \E req \in requests : request' = req
    /\ previous' = IF request = NoRequest THEN NoRequest ELSE Answered(request, reply)
    /\ reply' = NoReply
    /\ sales_data' = <<>>
    /\ prev_data' = <<>>
    /\ customer_data' = {}
    /\ monthly_data' = <<>>
    /\ product_data' = <<>>
    /\ UNCHANGED <<store, genVars>>

MixedRequests ==
    { SalesRequest(<<>>, <<>>, ""), [op |-> "customers"], [op |-> "products"], [op |-> "seasonal"] }

MixedNext ==
    \/ GenCheck(1)
    \/ GenInsert(1)
    \/ GenFail(1)
    \/ Arrive(MixedRequests)
    \/ GetSalesAnalytics
    \/ GetCustomerAnalytics
    \/ GetProductAnalytics
    \/ GetSeasonalTrends

SpecMixed == Init /\ [][MixedNext]_vars

\* Sales requests repeated against an unchanging collection
RepeatRequests ==
    { SalesRequest(<<>>, <<>>, ""),
      SalesRequest(<<>>, <<>>, "Europe"),
      SalesRequest(<<2024, 1, 11>>, <<2024, 1, 31>>, "") }

RepeatNext == Arrive(RepeatRequests) \/ GetSalesAnalytics

SpecRepeat == StoreInit(SalesStores, RepeatRequests) /\ [][RepeatNext]_vars

IsPrefix(a, b) == Len(a) <= Len(b) /\ SubSeq(b, 1, Len(a)) = a

StoredOfRun(run) == { i \in DOMAIN store : RunOf(store[i]) = run }

\* C15: generation is all-or-nothing: a run that fails leaves none of its
\* records in the store, and no reader is answered from a strict part of a
\* batch.
C15_AllOrNothing ==
    /\ \A p \in Procs :
          response[p].message = "error" => StoredOfRun(<<p, calls[p]>>) = {}
    /\ (Replied("customers") /\ response[1].message = "generated") =>
          RowsCount(customer_data) \in {0, response[1].count}

---------------------------------------------------------------------------
(* The top lists over a larger population: customer i bought once, product *)
(* i modulo the catalog at its lowest list price, in quantity 1 or 2.      *)

MaxCustomers == 11

ProductIds ==
    << "PROD001", "PROD002", "PROD003", "PROD004", "PROD005", "PROD006", "PROD007", "PROD008" >>

TopDraw(i, q) ==
    LET pid == ProductIds[((i - 1) % Len(ProductIds)) + 1]
        seg == customers[i].segment
    IN Draw(0, i, pid, q, Product(pid).lo * 10000,
            IF seg = "Enterprise" THEN 15 ELSE IF seg = "Individual" THEN 8 ELSE 10)

TopStores ==
    { StoreOf([ i \in DOMAIN f |-> TopDraw(i, f[i]) ]) :
        f \in UNION { [1..n -> {1, 2}] : n \in 0..MaxCustomers } }

TopNext == GetCustomerAnalytics \/ GetProductAnalytics

SpecTop == StoreInit(TopStores, {[op |-> "customers"], [op |-> "products"]}) /\ [][TopNext]_vars

---------------------------------------------------------------------------
(* Properties of get_sales_analytics *)

HasRange == request.start_date # <<>> /\ request.end_date # <<>>

\* C3: a sales request whose filter matches no transaction ends in a
\* not-found outcome, distinct from the internal-error outcome.
C3_NoDataIsNotFound ==
    (Replied("sales") /\ sales_data = <<>>) => reply.status = 404

\* The end of the range lies before its start
Inverted ==
    /\ HasRange
    /\ Hours(FromIsoFormat(request.end_date)) < Hours(FromIsoFormat(request.start_date))

\* C4: a sales request with an inverted date range is rejected with an
\* invalid-range outcome and computes no period result.
C4_InvertedRangeRejected ==
    (Replied("sales") /\ Inverted) => (reply.status = 400 /\ prev_data = <<>>)

RegionSelects(r) ==
    request.region = "" \/ request.region = "all" \/ r.region = request.region

\* The last hour a range end covers: a date-only end covers its whole day
EndHour(s) == IF Len(s) = 3 THEN Hours(FromIsoFormat(s)) + 23 ELSE Hours(FromIsoFormat(s))

InRange(r) ==
    /\ Hours(FromIsoFormat(request.start_date)) <= Hours(FromIsoFormat(r.date))
    /\ Hours(FromIsoFormat(r.date)) <= EndHour(request.end_date)

InSeq(x, s) == \E i \in DOMAIN s : s[i] = x

\* C6: with start and end supplied, a stored transaction is in the filtered
\* set exactly when start <= date <= end and the region matches, the end
\* day included.
C6_RangeInclusiveAtBothEnds ==
    (Replied("sales") /\ HasRange) =>
        \A i \in DOMAIN store :
            InSeq(store[i], sales_data) <=> (InRange(store[i]) /\ RegionSelects(store[i]))

\* C7: no analytics computation raises on a zero denominator; the growth
\* figures of an empty previous period, the average order value of zero
\* transactions and the retention rate of zero customers are 0.
C7_ZeroDenominatorsGiveZero ==
    /\ reply.detail # "ZeroDivisionError"
    /\ AverageOrderValue(0, 0) = Val(0)
    /\ (Replied("sales") /\ reply.status = 200 /\ HasRange) =>
          /\ SumAmounts(prev_data) = 0 => reply.body.period_comparison.revenue_growth = 0
          /\ Len(prev_data) = 0 => reply.body.period_comparison.transaction_growth = <<0, 1>>
    /\ (Replied("customers") /\ store = <<>>) =>
          /\ reply.status = 200
          /\ reply.body.customer_retention_rate = 0

\* previous-period revenue 0 and current-period revenue 500
C7_Witness ==
    /\ Replied("sales") /\ HasRange
    /\ reply.status = 200
    /\ reply.body.total_revenue = 50000
    /\ reply.body.period_comparison.previous_revenue = 0
    /\ reply.body.period_comparison.revenue_growth = 0

\* The range of the request runs forward: start < end
Forward ==
    /\ HasRange
    /\ Hours(FromIsoFormat(request.start_date)) < Hours(FromIsoFormat(request.end_date))

\* C14: with start < end supplied, the previous period has the length of
\* the current one and lies immediately before start: no transaction is
\* counted both in the previous and in the current period.
C14_PeriodsShareNoTransaction ==
    (Replied("sales") /\ Forward /\ reply.status = 200) =>
        /\ \A i \in DOMAIN prev_data :
              LET h == Hours(FromIsoFormat(prev_data[i].date))
                  s == Hours(FromIsoFormat(request.start_date))
                  e == Hours(FromIsoFormat(request.end_date))
              IN s - (e - s) <= h /\ h <= s
        /\ \A i \in DOMAIN sales_data : ~InSeq(sales_data[i], prev_data)

\* C19: sales analytics is a function of its arguments and the store: two
\* invocations with the same start, end and region against the same stored
\* transactions return the same result in every field.
C19_SameRequestSameResult ==
    (Replied("sales") /\ previous # NoRequest /\ previous.request = request) =>
        reply = previous.reply

---------------------------------------------------------------------------
(* Properties of the groupings *)

RECURSIVE PatternsRevenue(_, _)
PatternsRevenue(patterns, Q) ==
    IF Q = {} THEN 0
    ELSE LET q == CHOOSE x \in Q : TRUE
         IN patterns[q].revenue + PatternsRevenue(patterns, Q \ {q})

RECURSIVE PatternsTransactions(_, _)
PatternsTransactions(patterns, Q) ==
    IF Q = {} THEN 0
    ELSE LET q == CHOOSE x \in Q : TRUE
         IN patterns[q].transactions + PatternsTransactions(patterns, Q \ {q})

\* C8: in the grouping by customer, by month and in the quarter roll-up the
\* group revenues sum to the revenue of the store and the group counts to
\* the number of stored transactions.
C8_GroupSumsEqualTotals ==
    /\ Replied("customers") =>
          /\ RowsRevenue(customer_data) = SumAmounts(store)
          /\ RowsCount(customer_data) = Len(store)
    /\ Replied("seasonal") =>
          LET patterns == reply.body.seasonal_patterns
          IN /\ SumRevenue(monthly_data) = SumAmounts(store)
             /\ SumTransactions(monthly_data) = Len(store)
             /\ PatternsRevenue(patterns, DOMAIN patterns) = SumAmounts(store)
             /\ PatternsTransactions(patterns, DOMAIN patterns) = Len(store)

\* three transactions of two customers, two of them in one month, rolled
\* up into two quarters
C8_Witness ==
    /\ Replied("seasonal")
    /\ Len(store) = 3
    /\ Len(monthly_data) = 2
    /\ \E i \in DOMAIN monthly_data : monthly_data[i].transactions = 2
    /\ Cardinality(DOMAIN reply.body.seasonal_patterns) = 2
    /\ Cardinality({ store[i].customer_id : i \in DOMAIN store }) = 2

TransactionsOf(c) == { i \in DOMAIN store : store[i].customer_id = c }

StoredCustomers == { store[i].customer_id : i \in DOMAIN store }

\* one customer, one month, three transactions of 100, 200 and 300
Scenario600 ==
    /\ Len(store) = 3
    /\ Cardinality(StoredCustomers) = 1
    /\ Cardinality({ MonthKey(store[i]) : i \in DOMAIN store }) = 1
    /\ \A a \in {10000, 20000, 30000} : \E i \in DOMAIN store : store[i].total_amount = a

\* C9: returning_customers is the number of customers with more than one
\* transaction, at most total_customers; the retention rate is
\* returning / total * 100 within [0, 100]; a customer with transactions of
\* 100, 200 and 300 is reported with revenue 600, 3 transactions, returning.
C9_ReturningAndRetention ==
    Replied("customers") =>
        LET b == reply.body
        IN /\ reply.status = 200
           /\ b.total_customers = Cardinality(StoredCustomers)
           /\ b.returning_customers =
                 Cardinality({ c \in StoredCustomers : Cardinality(TransactionsOf(c)) > 1 })
           /\ b.returning_customers <= b.total_customers
           /\ b.customer_retention_rate \in 0..10000
           /\ b.total_customers > 0 =>
                 LET err == b.customer_retention_rate * b.total_customers
                              - b.returning_customers * 10000
                 IN 2 * err <= b.total_customers /\ 0 - 2 * err <= b.total_customers
           /\ Scenario600 =>
                 /\ b.returning_customers = 1
                 /\ b.customer_retention_rate = 10000
                 /\ Len(b.top_customers) = 1
                 /\ b.top_customers[1].revenue = 60000
                 /\ b.top_customers[1].transactions = 3
                 /\ b.top_customers[1].id \in StoredCustomers

C9_Witness == Replied("customers") /\ Scenario600

---------------------------------------------------------------------------
(* Properties of the top lists *)

StoredProducts == { store[i].product_id : i \in DOMAIN store }

CustomerRevenue(c) == SumAmounts(SelectSeq(store, LAMBDA r : r.customer_id = c))

ProductRevenue(k) == SumAmounts(SelectSeq(store, LAMBDA r : r.product_id = k))

AtMostTen(n) == IF n < 10 THEN n ELSE 10

\* C16: top_customers and top_products each hold min(10, number of groups)
\* entries in non-increasing order of total revenue, and no group left out
\* of a list has strictly greater revenue than one that is in it.
C16_TopListsByRevenue ==
    /\ Replied("customers") =>
          LET top == reply.body.top_customers
              listed == { top[i].id : i \in DOMAIN top }
          IN /\ Len(top) = AtMostTen(Cardinality(StoredCustomers))
             /\ Cardinality(listed) = Len(top)
             /\ listed \subseteq StoredCustomers
             /\ \A i \in DOMAIN top : top[i].revenue = CustomerRevenue(top[i].id)
             /\ \A i \in DOMAIN top : \A j \in DOMAIN top :
                   i < j => top[i].revenue >= top[j].revenue
             /\ \A c \in StoredCustomers \ listed :
                   \A i \in DOMAIN top : CustomerRevenue(c) <= top[i].revenue
    /\ Replied("products") =>
          LET top == reply.body.top_products
              listed == { top[i].id : i \in DOMAIN top }
          IN /\ Len(top) = AtMostTen(Cardinality(StoredProducts))
             /\ Cardinality(listed) = Len(top)
             /\ listed \subseteq StoredProducts
             /\ \A i \in DOMAIN top : top[i].revenue = ProductRevenue(top[i].id)
             /\ \A i \in DOMAIN top : \A j \in DOMAIN top :
                   i < j => top[i].revenue >= top[j].revenue
             /\ \A k \in StoredProducts \ listed :
                   \A i \in DOMAIN top : ProductRevenue(k) <= top[i].revenue

\* eleven customers, two of the listed ten with equal revenue, the
\* eleventh left out
C16_Witness ==
    /\ Replied("customers")
    /\ Cardinality(StoredCustomers) = 11
    /\ Len(reply.body.top_customers) = 10
    /\ \E i \in 1..9 :
          reply.body.top_customers[i].revenue = reply.body.top_customers[i + 1].revenue
    /\ reply.body.top_customers[1].revenue > reply.body.top_customers[10].revenue

---------------------------------------------------------------------------
(* Properties of the peak periods *)

StoredMonths == { MonthKey(store[i]) : i \in DOMAIN store }

MonthRevenue(k) == SumAmounts(SelectSeq(store, LAMBDA r : MonthKey(r) = k))

\* The months whose revenue is strictly above 1.2 times the mean over all months
Qualifying ==
    { k \in StoredMonths :
        MonthRevenue(k) * Cardinality(StoredMonths) * 10 > SumAmounts(store) * 12 }

MonthIndex(k) == k[1] * 12 + k[2]

MonthTransactions(k) == Len(SelectSeq(store, LAMBDA r : MonthKey(r) = k))

\* C17: monthly_trends lists min(12, number of distinct months) entries: the
\* most recent year-month keys of the store in strictly ascending order,
\* labels, revenue and transactions aligned index by index to one month.
C17_TrendsAreLastTwelveMonths ==
    Replied("seasonal") =>
        LET t == reply.body.monthly_trends
            listed == { t.labels[i] : i \in DOMAIN t.labels }
        IN /\ Len(t.labels) = (IF Cardinality(StoredMonths) < 12
                                 THEN Cardinality(StoredMonths) ELSE 12)
           /\ Len(t.revenue) = Len(t.labels)
           /\ Len(t.transactions) = Len(t.labels)
           /\ listed \subseteq StoredMonths
           /\ \A i \in DOMAIN t.labels : \A j \in DOMAIN t.labels :
                 i < j => MonthIndex(t.labels[i]) < MonthIndex(t.labels[j])
           /\ \A k \in StoredMonths \ listed :
                 \A m \in listed : MonthIndex(k) < MonthIndex(m)
           /\ \A i \in DOMAIN t.labels :
                 /\ t.revenue[i] = MonthRevenue(t.labels[i])
                 /\ t.transactions[i] = MonthTransactions(t.labels[i])

\* thirteen months stored: the oldest, 2024-01, is left out and the view
\* runs from 2024-02 to 2025-01, the revenues of its ends differing
C17_Witness ==
    /\ Replied("seasonal")
    /\ Cardinality(StoredMonths) = 13
    /\ Len(reply.body.monthly_trends.labels) = 12
    /\ reply.body.monthly_trends.labels[1] = <<2024, 2>>
    /\ reply.body.monthly_trends.labels[12] = <<2025, 1>>
    /\ reply.body.monthly_trends.revenue[1] # reply.body.monthly_trends.revenue[12]
    /\ MonthRevenue(<<2024, 1>>) # MonthRevenue(<<2024, 2>>)

====
